---- MODULE Spec2Model ----
(***************************************************************************)
(* A model of fossgraph's Yarn Berry lockfile normalizer                   *)
(* (fossgraph/src/dependency/normalize/yarn_berry.rs), of                  *)
(* Dependency::canonicalize (fossgraph/src/dependency.rs) and of the       *)
(* fetcher's from_tar (fossgraph-fetcher/src/zip_util.rs).                 *)
(*                                                                         *)
(* A Rust String is a TLA+ string; Len, SubSeq and \o act on it character  *)
(* by character.  The strings of the model are ASCII.  Option<T> is a      *)
(* sequence of length 0 (None) or 1 (Some), a Result is a record tagged    *)
(* "Ok" or "Err", and a panic (an unwrap() of None) is the record Panic:   *)
(* it unwinds through every caller and is no value of the Result type.     *)
(***************************************************************************)
EXTENDS Integers, Sequences, FiniteSets, TLC

VARIABLES
    pc,       \* the function that is running, or "done"
    yaml,     \* normalize_yaml: the parsed YAML document it is given
    iter,     \* normalize_yaml: the entries `iter` has yet to yield, in order
    deps,     \* normalize_yaml: the HashSet<Dependency> built so far
    result,   \* normalize_yaml: what the call ended with
    stack,    \* normalize_single_resolution: `resolution` of each active frame
    single,   \* normalize_single_resolution: what the returning frame returned
              \* (canonicalize called twice: what the second call ended with)
    arg,      \* the argument of a function that is called on its own (else "")
    ret,      \* what that function ended with
    zip_writer \* from_tar: the files `zip_writer` has been given, in order

vars == <<pc, yaml, iter, deps, result, stack, single, arg, ret, zip_writer>>

-----------------------------------------------------------------------------
(* Option, Result, panic *)

None == <<>>
Some(x) == <<x>>

Ok(v) == [tag |-> "Ok", val |-> v]
Err(e) == [tag |-> "Err", err |-> e]
Panic == [tag |-> "Panic"]
Pending == [tag |-> "Pending"]

Min(S) == CHOOSE i \in S : \A j \in S : i <= j

-----------------------------------------------------------------------------
(* str *)

Char(s, i) == SubSeq(s, i, i)

\* Whether `p` occurs in `s` at position i.
At(s, i, p) == i >= 1 /\ i + Len(p) - 1 <= Len(s) /\ SubSeq(s, i, i + Len(p) - 1) = p

starts_with(s, p) == At(s, 1, p)

\* str::match_indices: the positions where `p` occurs, in increasing order
\* (`p` is one character wherever the program calls it, so no two overlap).
match_indices(s, p) == {i \in 1..Len(s) : At(s, i, p)}

\* str::split_at(index) with index counted from 0, as Rust does.
split_at(s, index) == <<SubSeq(s, 1, index), SubSeq(s, index + 1, Len(s))>>

\* str::split_once: cut at the first occurrence of `p`.
split_once(s, p) ==
    LET I == match_indices(s, p)
    IN  IF I = {} THEN None
        ELSE Some(<<SubSeq(s, 1, Min(I) - 1), SubSeq(s, Min(I) + Len(p), Len(s))>>)

strip_prefix(s, p) ==
    IF starts_with(s, p) THEN Some(SubSeq(s, Len(p) + 1, Len(s))) ELSE None

-----------------------------------------------------------------------------
(* Error *)

invalid_format ==
    [kind |-> "InvalidLockfileFormat", message |-> "Malformed lockfile"]

invalid_descriptor(descriptor) ==
    [kind |-> "InvalidLockfileFormat",
     message |-> "Some resolution has unsupported descriptor: " \o descriptor]

UnsupportedResolution(resolution) ==
    [kind |-> "UnsupportedResolution", resolution |-> resolution]

-----------------------------------------------------------------------------
(* Dependency *)

Git(url, head) == [type |-> "Git", url |-> url, head |-> head]
GitHub(owner, name, head) ==
    [type |-> "GitHub", owner |-> owner, name |-> name, head |-> head]
Npm(name, version) == [type |-> "Npm", name |-> name, version |-> version]
CocoaPods(name, version) ==
    [type |-> "CocoaPods", name |-> name, version |-> version]
Maven(group_id, artifact_id, version) ==
    [type |-> "Maven", group_id |-> group_id, artifact_id |-> artifact_id,
     version |-> version]

-----------------------------------------------------------------------------
(* percent_encoding, form_urlencoded and url, as parse_range uses them.      *)
(* A decoded text is a sequence of bytes (numbers) until it is read as       *)
(* UTF-8.  Chr is defined on the printable ASCII bytes and on tab, line feed *)
(* and carriage return only: an escape of any other byte is outside the      *)
(* strings this model can hold, and no input of the model has one.           *)

\* The printable ASCII characters: bytes 32..95, and bytes 97..126 (a TLA+
\* string cannot hold byte 96, the backtick).
Printable32 ==
    " !\"#$%&'()*+,-./0123456789:;<=>?@ABCDEFGHIJKLMNOPQRSTUVWXYZ[\\]^_"
Printable97 == "abcdefghijklmnopqrstuvwxyz{|}~"

Chr(b) ==
    CASE b \in 32..95 -> Char(Printable32, b - 31)
      [] b \in 97..126 -> Char(Printable97, b - 96)
      [] b = 9 -> "\t"
      [] b = 10 -> "\n"
      [] b = 13 -> "\r"

Ord(c) ==
    CASE c = "\t" -> 9
      [] c = "\n" -> 10
      [] c = "\r" -> 13
      [] match_indices(Printable32, c) # {} -> 31 + Min(match_indices(Printable32, c))
      [] match_indices(Printable97, c) # {} -> 96 + Min(match_indices(Printable97, c))

IsHex(c) == match_indices("0123456789abcdefABCDEF", c) # {}

HexVal(c) ==
    LET i == Min(match_indices("0123456789abcdefABCDEF", c))
    IN  IF i <= 16 THEN i - 1 ELSE i - 7

\* percent_decode_str(s): a percent sign followed by two hex digits is one byte, every
\* other character stands for itself.
RECURSIVE percent_decode_str(_)
percent_decode_str(s) ==
    IF s = "" THEN <<>>
    ELSE IF Char(s, 1) = "%" /\ Len(s) >= 3 /\ IsHex(Char(s, 2)) /\ IsHex(Char(s, 3))
    THEN <<16 * HexVal(Char(s, 2)) + HexVal(Char(s, 3))>>
             \o percent_decode_str(SubSeq(s, 4, Len(s)))
    ELSE <<Ord(Char(s, 1))>> \o percent_decode_str(SubSeq(s, 2, Len(s)))

IsCont(bytes, i) == i <= Len(bytes) /\ bytes[i] \in 128..191

\* Whether a byte sequence is well-formed UTF-8.
RECURSIVE utf8_valid(_)
utf8_valid(bytes) ==
    IF bytes = <<>> THEN TRUE
    ELSE LET b == bytes[1]
             n == CASE b < 128 -> 1
                    [] b \in 194..223 -> 2
                    [] b \in 224..239 -> 3
                    [] b \in 240..244 -> 4
                    [] OTHER -> 0
         IN  /\ n > 0
             /\ \A i \in 2..n : IsCont(bytes, i)
             /\ (b = 224 => bytes[2] >= 160)
             /\ (b = 237 => bytes[2] <= 159)
             /\ (b = 240 => bytes[2] >= 144)
             /\ (b = 244 => bytes[2] <= 143)
             /\ utf8_valid(SubSeq(bytes, n + 1, Len(bytes)))

RECURSIVE from_utf8(_)
from_utf8(bytes) ==
    IF bytes = <<>> THEN "" ELSE Chr(bytes[1]) \o from_utf8(Tail(bytes))

\* PercentDecode::decode_utf8: Err on ill-formed UTF-8.
decode_utf8(bytes) ==
    IF utf8_valid(bytes) THEN Ok(from_utf8(bytes)) ELSE Err("Utf8Error")

RECURSIVE replace_char(_, _, _)
replace_char(s, from, to) ==
    IF s = "" THEN ""
    ELSE (IF Char(s, 1) = from THEN to ELSE Char(s, 1))
             \o replace_char(SubSeq(s, 2, Len(s)), from, to)

\* form_urlencoded's decode of one name or value: a plus sign is a space, then
\* the percent escapes, then the bytes read as UTF-8.
form_decode(s) == from_utf8(percent_decode_str(replace_char(s, "+", " ")))

\* str::split on one character: the pieces, in order.
RECURSIVE split(_, _)
split(s, sep) ==
    LET cut == split_once(s, sep)
    IN  IF cut = None THEN <<s>> ELSE <<cut[1][1]>> \o split(cut[1][2], sep)

\* form_urlencoded::parse: the pieces between ampersands that are not empty,
\* each cut at its first equals sign (none: the value is empty), name and value
\* decoded.
RECURSIVE form_pairs(_)
form_pairs(pieces) ==
    IF pieces = <<>> THEN <<>>
    ELSE LET piece == Head(pieces)
             cut == split_once(piece, "=")
             name == IF cut = None THEN piece ELSE cut[1][1]
             val == IF cut = None THEN "" ELSE cut[1][2]
         IN  (IF piece = "" THEN <<>> ELSE <<<<form_decode(name), form_decode(val)>>>>)
                 \o form_pairs(Tail(pieces))

C0OrSpace == {" ", "\t", "\n", "\r", "\f"}

RECURSIVE trim_end(_)
trim_end(s) ==
    IF s # "" /\ Char(s, Len(s)) \in C0OrSpace
    THEN trim_end(SubSeq(s, 1, Len(s) - 1)) ELSE s

RECURSIVE remove_chars(_, _)
remove_chars(s, drop) ==
    IF s = "" THEN ""
    ELSE (IF Char(s, 1) \in drop THEN "" ELSE Char(s, 1))
             \o remove_chars(SubSeq(s, 2, Len(s)), drop)

\* The query of Url::parse(dummy_url), dummy_url being http://dummy? followed by
\* m: the parser trims the control characters and spaces that end its input,
\* drops every tab, line feed and carriage return, and ends the query at the
\* first hash sign (the fragment).  What it percent-encodes in the query,
\* query_pairs decodes again.
url_query(m) ==
    LET text == remove_chars(trim_end(m), {"\t", "\n", "\r"})
        cut == split_once(text, "#")
    IN  IF cut = None THEN text ELSE cut[1][1]

\* Url::query_pairs().into_owned(): the pairs of the query, in order.
query_pairs(m) == form_pairs(split(url_query(m), "&"))

\* collect::<HashMap<String, String>>(): the map from each key to the value of
\* the last pair that has it.
collect_map(pairs) ==
    [k \in {pairs[i][1] : i \in DOMAIN pairs} |->
        LET last == CHOOSE i \in DOMAIN pairs :
                        /\ pairs[i][1] = k
                        /\ \A j \in DOMAIN pairs : pairs[j][1] = k => j <= i
        IN  pairs[last][2]]

\* HashMap::get.
map_get(map, key) == IF key \in DOMAIN map THEN Some(map[key]) ELSE None

-----------------------------------------------------------------------------
(* PackageDescriptor and PackageRange *)

DescriptorRegular(ident, range) ==
    [variant |-> "Regular", ident |-> ident, range |-> range]
DescriptorGit(ident, url, commit_hash) ==
    [variant |-> "Git", ident |-> ident, url |-> url, commit_hash |-> commit_hash]

PackageRange(protocol, selector, source, bindings) ==
    [protocol |-> protocol, selector |-> selector, source |-> source,
     bindings |-> bindings]

\* split_range without the branch for a scoped name: always split_once.
split_range_unscoped(descriptor) ==
    LET cut == split_once(descriptor, "@")
    IN  IF cut # None THEN Ok(cut[1]) ELSE Err(invalid_descriptor(descriptor))

\* PackageDescriptor::split_range: the cut is at the second match of '@' when
\* the descriptor starts with '@', and else where split_once cuts.
split_range(descriptor) ==
    IF starts_with(descriptor, "@")
    THEN LET later == match_indices(descriptor, "@") \ {1}
             index == Min(later) - 1
         IN  IF later # {}
             THEN Ok(<<split_at(descriptor, index)[1], split_at(descriptor, index + 1)[2]>>)
             ELSE Err(invalid_descriptor(descriptor))
    ELSE LET cut == split_once(descriptor, "@")
         IN  IF cut # None THEN Ok(cut[1]) ELSE Err(invalid_descriptor(descriptor))

\* The characters of the model that the class \s of the regular expression
\* matches.
Whitespace == {" ", "\t", "\n", "\r", "\f"}

\* The first position from `from` on that is in `stops`, or the position after
\* the end of `s`: where a greedy repetition that cannot enter `stops` ends.
scan(s, from, stops) == Min({i \in from..Len(s) : i \in stops} \cup {Len(s) + 1})

\* Where the group `protocol`, [^#:\s]*: , has to find its colon.
protocol_stop(range) ==
    scan(range, 1, {i \in 1..Len(range) : Char(range, i) \in {"#", ":"} \cup Whitespace})

\* protocol_capture with the colon left outside the group.
protocol_capture_bare(range, colon) == SubSeq(range, 1, colon - 1)

\* The text the group `protocol` captures: up to and with the colon.
protocol_capture(range, colon) == SubSeq(range, 1, colon)

\* PackageDescriptor::parse_range: RE.captures(range).  Each repetition of RE is
\* greedy and ends where its class or its lookahead (?!::) first fails; what
\* follows it in RE has to match right there, so no shorter repetition matches
\* where the longest does not.
parse_range(descriptor, range) ==
    LET n == Len(range)
        colon == protocol_stop(range)
        selector_end ==
            scan(range, colon + 1,
                 {i \in 1..n : Char(range, i) \in {"#"} \cup Whitespace \/ At(range, i, "::")})
        has_source == At(range, selector_end, "#")
        source_end ==
            IF has_source
            THEN scan(range, selector_end + 1,
                      {i \in 1..n : Char(range, i) = "\n" \/ At(range, i, "::")})
            ELSE selector_end
        has_bindings == At(range, source_end, "::")
        m == SubSeq(range, source_end + 2, n)
        matches ==
            /\ colon <= n
            /\ Char(range, colon) = ":"
            /\ IF has_bindings THEN match_indices(m, "\n") = {} ELSE source_end = n + 1
    IN  IF matches
        THEN Ok(PackageRange(
                 protocol_capture(range, colon),
                 SubSeq(range, colon + 1, selector_end - 1),
                 IF has_source THEN Some(SubSeq(range, selector_end + 1, source_end - 1))
                 ELSE None,
                 IF has_bindings THEN Some(collect_map(query_pairs(m))) ELSE None))
        ELSE Err(invalid_descriptor(descriptor))

\* The rewrite of a range that starts with git@: the text before the first '/'
\* and the text after it, joined by ':'.  None where the code's unwrap() panics.
git_range(range) ==
    LET cut == split_once(range, "/")
    IN  IF cut = None THEN None ELSE Some(cut[1][1] \o ":" \o cut[1][2])

\* The Git descriptor of a range, or the error when it has no #commit= marker.
git_descriptor(value, ident, range) ==
    LET cut == split_once(range, "#commit=")
    IN  IF cut # None THEN Ok(DescriptorGit(ident, cut[1][1], cut[1][2]))
        ELSE Err(invalid_descriptor(value))

\* impl TryFrom<&str> for PackageDescriptor.
try_from(value) ==
    LET parts == split_range(value)
        ident == parts.val[1]
        range == parts.val[2]
    IN  IF parts.tag = "Err" THEN parts
        ELSE IF starts_with(range, "git@")
        THEN IF git_range(range) = None THEN Panic
             ELSE git_descriptor(value, ident, git_range(range)[1])
        ELSE IF starts_with(range, "https://github.com/")
        THEN git_descriptor(value, ident, range)
        ELSE LET parsed == parse_range(value, range)
             IN  IF parsed.tag = "Err" THEN parsed
                 ELSE Ok(DescriptorRegular(ident, parsed.val))

-----------------------------------------------------------------------------
(* normalize_single_resolution *)

\* The recursive call a frame makes: the frame returns what the call returns.
Call(resolution) == [tag |-> "Call", resolution |-> resolution]

\* nested_descriptor decoding the selector, where a patch holds its package.
nested_descriptor_selector(range) == decode_utf8(percent_decode_str(range.selector))

\* The text the patch: arm decodes to get the nested descriptor.
nested_descriptor(range) == decode_utf8(percent_decode_str(range.protocol))

\* match_protocol without the check for a private registry.
match_protocol_any_registry(resolution, ident, range) ==
    IF range.protocol = "npm:" THEN Ok(Npm(ident, range.selector))
    ELSE IF range.protocol = "patch:"
    THEN LET nested == decode_utf8(percent_decode_str(range.protocol))
         IN  IF nested.tag = "Ok" THEN Call(nested.val) ELSE Err(invalid_format)
    ELSE Err(UnsupportedResolution(resolution))

\* The arm of a Regular descriptor.
match_protocol(resolution, ident, range) ==
    IF range.protocol = "npm:"
    THEN LET archive_url ==
                 IF range.bindings = None THEN None
                 ELSE map_get(range.bindings[1], "__archiveUrl")
         IN  IF archive_url = None THEN Ok(Npm(ident, range.selector))
             ELSE Err(UnsupportedResolution(resolution))
    ELSE IF range.protocol = "patch:"
    THEN LET nested == nested_descriptor(range)
         IN  IF nested.tag = "Ok" THEN Call(nested.val) ELSE Err(invalid_format)
    ELSE Err(UnsupportedResolution(resolution))

\* One frame of normalize_single_resolution: what it returns, or the call it
\* makes.
frame(resolution) ==
    LET descriptor == try_from(resolution)
    IN  IF descriptor.tag # "Ok" THEN descriptor
        ELSE IF descriptor.val.variant = "Git"
        THEN Ok(Git(descriptor.val.url, Some(descriptor.val.commit_hash)))
        ELSE match_protocol(resolution, descriptor.val.ident, descriptor.val.range)

\* normalize_single_resolution as a function of its argument.
RECURSIVE normalize_single_resolution(_)
normalize_single_resolution(resolution) ==
    LET f == frame(resolution)
    IN  IF f.tag = "Call" THEN normalize_single_resolution(f.resolution) ELSE f

-----------------------------------------------------------------------------
(* Dependency::canonicalize.  It returns a Dependency, not a Result: Ok(d) *)
(* stands for the return of d.                                             *)

canonicalize(self) ==
    IF self.type = "Git"
    THEN LET substr == strip_prefix(self.url, "git@github.com:")
             first == split_once(substr[1], "/")
             second == split_once(first[1][2], ".git")
         IN  IF substr = None THEN Ok(self)
             ELSE IF first = None THEN Panic
             ELSE IF second = None THEN Panic
             ELSE Ok(GitHub(first[1][1], second[1][1], self.head))
    ELSE Ok(self)

-----------------------------------------------------------------------------
(* serde_yaml::Value, as far as normalize_yaml looks into it.  A Mapping keeps *)
(* its entries in document order.                                             *)

Null == [tag |-> "Null"]
Number(n) == [tag |-> "Number", n |-> n]
String(s) == [tag |-> "String", s |-> s]
Mapping(entries) == [tag |-> "Mapping", entries |-> entries]
Entry(key, val) == [key |-> key, val |-> val]

as_mapping(v) == IF v.tag = "Mapping" THEN Some(v.entries) ELSE None
as_str(v) == IF v.tag = "String" THEN Some(v.s) ELSE None

\* Mapping::get(key).
get(entries, key) ==
    LET hit == SelectSeq(entries, LAMBDA e : e.key = key)
    IN  IF hit = <<>> THEN None ELSE Some(hit[1].val)

\* value.as_mapping().and_then(|map| map.get("resolution")).and_then(|value|
\* value.as_str()) of one entry's value.
resolution_of(v) ==
    IF as_mapping(v) = None THEN None
    ELSE IF get(as_mapping(v)[1], "resolution") = None THEN None
    ELSE as_str(get(as_mapping(v)[1], "resolution")[1])

-----------------------------------------------------------------------------
(* normalize_yaml, one step at a time.  pc is "normalize_yaml" at the call,   *)
(* "for" at the head of the loop, "normalize_single_resolution" while the     *)
(* frames of that function run, "match" when the loop has its result, and     *)
(* "done" when normalize_yaml has ended with `result`.                        *)

\* deps.insert(dependency).
insert(set, dependency) == set \cup {dependency}

\* skip_metadata without the iter.next(): the loop starts at the first entry.
skip_nothing(entries) == entries

\* let (_key, _value) = iter.next().unwrap(): what is left of a mapping's
\* entries once the first is consumed.
skip_metadata(entries) == Tail(entries)

\* value.as_mapping() is None: Err(Error::invalid_format()).
NotAMapping ==
    /\ pc = "normalize_yaml"
    /\ as_mapping(yaml) = None
    /\ result' = Err(invalid_format)
    /\ pc' = "done"
    /\ UNCHANGED <<yaml, iter, deps, stack, single, arg, ret, zip_writer>>

\* iter.next().unwrap() on a mapping with no entry: the unwrap panics.
NoMetadata ==
    /\ pc = "normalize_yaml"
    /\ as_mapping(yaml) # None
    /\ as_mapping(yaml)[1] = <<>>
    /\ result' = Panic
    /\ pc' = "done"
    /\ UNCHANGED <<yaml, iter, deps, stack, single, arg, ret, zip_writer>>

\* let mut deps = HashSet::new(); iter.next().unwrap(): the first entry is
\* consumed unread.
SkipMetadata ==
    /\ pc = "normalize_yaml"
    /\ as_mapping(yaml) # None
    /\ as_mapping(yaml)[1] # <<>>
    /\ deps' = {}
    /\ iter' = skip_metadata(as_mapping(yaml)[1])
    /\ pc' = "for"
    /\ UNCHANGED <<yaml, result, stack, single, arg, ret, zip_writer>>

\* The loop's next entry has no string `resolution`: ok_or_else(...)? returns.
EntryMalformed ==
    /\ pc = "for"
    /\ iter # <<>>
    /\ resolution_of(Head(iter).val) = None
    /\ result' = Err(invalid_format)
    /\ pc' = "done"
    /\ UNCHANGED <<yaml, iter, deps, stack, single, arg, ret, zip_writer>>

\* The loop's next entry has one: normalize_single_resolution(resolution).
EntryResolution ==
    /\ pc = "for"
    /\ iter # <<>>
    /\ resolution_of(Head(iter).val) # None
    /\ iter' = Tail(iter)
    /\ stack' = <<resolution_of(Head(iter).val)[1]>>
    /\ pc' = "normalize_single_resolution"
    /\ UNCHANGED <<yaml, deps, result, single, arg, ret, zip_writer>>

\* The frame on top takes the patch: arm and calls itself on the nested text.
Recurse ==
    /\ pc = "normalize_single_resolution"
    /\ frame(stack[Len(stack)]).tag = "Call"
    /\ stack' = Append(stack, frame(stack[Len(stack)]).resolution)
    /\ UNCHANGED <<pc, yaml, iter, deps, result, single, arg, ret, zip_writer>>

\* The frame on top returns (or panics) without a call.
Return ==
    /\ pc = "normalize_single_resolution"
    /\ frame(stack[Len(stack)]).tag # "Call"
    /\ single' = frame(stack[Len(stack)])
    /\ pc' = "return"
    /\ UNCHANGED <<yaml, iter, deps, result, stack, arg, ret, zip_writer>>

\* A frame that made the call returns what the call returned; the first frame
\* hands it to the caller of normalize_single_resolution.
Unwind ==
    /\ pc = "return"
    /\ stack' = SubSeq(stack, 1, Len(stack) - 1)
    /\ pc' = IF Len(stack) > 1 THEN "return" ELSE "match"
    /\ UNCHANGED <<yaml, iter, deps, result, single, arg, ret, zip_writer>>

\* Ok(dependency) => deps.insert(dependency).
Insert ==
    /\ pc = "match"
    /\ single.tag = "Ok"
    /\ deps' = insert(deps, single.val)
    /\ pc' = "for"
    /\ UNCHANGED <<yaml, iter, result, stack, single, arg, ret, zip_writer>>

\* Whether the loop takes the arm Err(Error::UnsupportedResolution { .. }).
is_unsupported(r) == r.tag = "Err" /\ r.err.kind = "UnsupportedResolution"

\* Err(Error::UnsupportedResolution { .. }) => noop.
Noop ==
    /\ pc = "match"
    /\ is_unsupported(single)
    /\ pc' = "for"
    /\ UNCHANGED <<yaml, iter, deps, result, stack, single, arg, ret, zip_writer>>

\* Err(error) => return Err(error).
ReturnErr ==
    /\ pc = "match"
    /\ single.tag = "Err"
    /\ ~is_unsupported(single)
    /\ result' = single
    /\ pc' = "done"
    /\ UNCHANGED <<yaml, iter, deps, stack, single, arg, ret, zip_writer>>

\* normalize_single_resolution panicked: the panic unwinds through the loop.
Unwound ==
    /\ pc = "match"
    /\ single.tag = "Panic"
    /\ result' = Panic
    /\ pc' = "done"
    /\ UNCHANGED <<yaml, iter, deps, stack, single, arg, ret, zip_writer>>

\* The iterator is exhausted: Ok(deps).
ReturnDeps ==
    /\ pc = "for"
    /\ iter = <<>>
    /\ result' = Ok(deps)
    /\ pc' = "done"
    /\ UNCHANGED <<yaml, iter, deps, stack, single, arg, ret, zip_writer>>

-----------------------------------------------------------------------------
(* The documents normalize_yaml is run on: values that are no mapping, and the *)
(* mappings of up to MaxEntries entries.  The first entry is the metadata of a *)
(* lockfile or, in a document that has none, a package; each later entry is    *)
(* one of the shapes the loop tells apart.                                     *)

MaxEntries == 3

Package(resolution) ==
    Mapping(<<Entry("version", String("1")), Entry("resolution", String(resolution))>>)

FirstEntries ==
    { Entry("__metadata", Mapping(<<Entry("version", Number(6)), Entry("cacheKey", Number(8))>>)),
      Entry("left-pad@npm:^1.3.0", Package("left-pad@npm:1.3.0")) }

EntryValues ==
    { Package("lodash@npm:4.17.21"),
      Package("@scope/name@npm:1.2.3"),
      Package("cjk-slug@git@github.com/daangn/cjk-slug.git#commit=de5d975"),
      Package("cjk-slug-github@https://github.com/daangn/cjk-slug.git#commit=de5d975"),
      Package("berry-lock@workspace:."),
      Package("@fortawesome/pro@npm:6.4.0::__archiveUrl=https%3A%2F%2Fnpm.fontawesome.com%2Fpro.tgz"),
      Package("lodash@patch:lodash@npm%3A4.17.21#./lodash.patch::version=4.17.21"),
      Package("lodash"),
      Package("cjk-slug@git@github.com"),
      Mapping(<<Entry("version", String("1"))>>),
      Mapping(<<Entry("resolution", Number(1))>>),
      String("lodash@npm:4.17.21") }

\* The sequences of length n over S.
Tuples(S, n) == [1..n -> S]

Keyed(first, later) ==
    <<first>> \o [i \in 1..Len(later) |-> Entry("package" \o ToString(i), later[i])]

Documents ==
    {Null, String("__metadata"), Mapping(<<>>)}
        \cup { Mapping(Keyed(first, later)) :
                 first \in FirstEntries,
                 later \in UNION {Tuples(EntryValues, n) : n \in 0..(MaxEntries - 1)} }

Init ==
    /\ pc = "normalize_yaml"
    /\ yaml \in Documents
    /\ iter = <<>>
    /\ deps = {}
    /\ result = Pending
    /\ stack = <<>>
    /\ single = Pending
    /\ zip_writer = <<>>
    /\ arg = ""
    /\ ret = Pending

Next ==
    \/ NotAMapping
    \/ NoMetadata
    \/ SkipMetadata
    \/ EntryMalformed
    \/ EntryResolution
    \/ Recurse
    \/ Return
    \/ Unwind
    \/ Insert
    \/ Noop
    \/ ReturnErr
    \/ Unwound
    \/ ReturnDeps

Spec == Init /\ [][Next]_vars

\* normalize_yaml on lockfiles that hold patched packages: the shapes of a
\* patch: resolution (as Yarn writes it, with the nested descriptor plain, with
\* no selector, a builtin patch, a patch of a patch, with a binding), two that
\* are no patch: range (a space in the selector, another protocol), and one
\* entry for each other way the loop goes.
PatchValues ==
    { Package("lodash@patch:lodash@npm%3A4.17.21#./lodash.patch::version=4.17.21"),
      Package("lodash@patch:lodash@npm:4.17.21"),
      Package("@scope/name@patch:"),
      Package("typescript@patch:typescript@npm%3A5.0.4#~builtin<compat/typescript>"),
      Package("pkg@patch:a@patch:b@npm%3A1#x"),
      Package("pkg@patch:x::__archiveUrl=u"),
      Package("pkg@patch:^1 2"),
      Package("pkg@Patch:x"),
      Package("lodash@npm:4.17.21"),
      Package("berry-lock@workspace:."),
      Package("cjk-slug@git@github.com"),
      Mapping(<<Entry("version", String("1"))>>) }

PatchDocuments ==
    {Null, Mapping(<<>>)}
        \cup { Mapping(Keyed(first, later)) :
                 first \in FirstEntries,
                 later \in UNION {Tuples(PatchValues, n) : n \in 0..(MaxEntries - 1)} }

InitPatch ==
    /\ pc = "normalize_yaml"
    /\ yaml \in PatchDocuments
    /\ iter = <<>>
    /\ deps = {}
    /\ result = Pending
    /\ stack = <<>>
    /\ single = Pending
    /\ zip_writer = <<>>
    /\ arg = ""
    /\ ret = Pending

SpecPatch == InitPatch /\ [][Next]_vars

-----------------------------------------------------------------------------
(* normalize_single_resolution called on its own: `arg` keeps the resolution  *)
(* of the first frame, and the run ends at pc = "match" with `single`.         *)

Idents == {"pkg", "@scope/name"}
Hosts == {"github.com", "gitlab.com"}
Owners == {"owner", "daangn"}
Repos == {"repo", "cjk-slug"}
Commits == {"deadbeef", "de5d975"}

\* Yarn's spelling of an SSH-style git range, and the scp-like spelling.
SlashForm(ident, host, owner, repo, commit) ==
    ident \o "@git@" \o host \o "/" \o owner \o "/" \o repo \o ".git#commit=" \o commit
ColonForm(ident, host, owner, repo, commit) ==
    ident \o "@git@" \o host \o ":" \o owner \o "/" \o repo \o ".git#commit=" \o commit

GitResolutions ==
    { form : form \in UNION { {SlashForm(i, h, o, r, c), ColonForm(i, h, o, r, c)} :
                 i \in Idents, h \in Hosts, o \in Owners, r \in Repos, c \in Commits } }

\* Ranges that start with git@ or https://github.com/ , with and without the
\* marker #commit= and with and without a '/'.
RawGitRanges ==
    { "git@github.com/owner/repo.git", "git@github.com:owner/repo.git",
      "git@github.com", "git@github.com:owner", "git@", "git@github.com#commit=deadbeef",
      "git@github.com/owner/repo.git#deadbeef", "git@github.com/#commit=",
      "https://github.com/owner/repo.git#commit=deadbeef",
      "https://github.com/owner/repo.git", "https://github.com/",
      "https://github.com/owner/repo.git#deadbeef" }

Protocols == {"npm:", "patch:", "workspace:", "link:", ":", ""}
Selectors == {"1.2.3", "", "^1 2", "lodash@npm%3A4.17.21", "b@patch:c@npm:1"}
Sources == {"", "#./a.patch", "#a\nb"}
Bindings ==
    { "", "::__archiveUrl=https%3A%2F%2Fe.com%2Fa.tgz", "::version=1&hash=2",
      "::%5F%5FarchiveUrl=u", "::hash=2&__archiveUrl", "::hash=2#__archiveUrl=u",
      "::__archiveurl=u" }

RegularRanges ==
    { p \o sel \o src \o b : p \in Protocols, sel \in Selectors, src \in Sources, b \in Bindings }

\* A patch of a patch of ... a package, k deep, as a crafted lockfile nests them.
MaxNest == 3

RECURSIVE Nested(_)
Nested(k) ==
    IF k = 0 THEN "lodash@npm:4.17.21"
    ELSE "lodash@patch:" \o Nested(k - 1) \o "#./lodash.patch"

Resolutions ==
    GitResolutions
        \cup { i \o "@" \o r : i \in Idents, r \in RawGitRanges \cup RegularRanges }
        \cup { Nested(k) : k \in 0..MaxNest }
        \cup { "", "@", "pkg", "@scope/name", "pkg@", "@scope@" }

InitNormalize ==
    /\ pc = "normalize_single_resolution"
    /\ arg \in Resolutions
    /\ stack = <<arg>>
    /\ single = Pending
    /\ zip_writer = <<>>
    /\ yaml = Null
    /\ iter = <<>>
    /\ deps = {}
    /\ result = Pending
    /\ ret = Pending

NextNormalize == Recurse \/ Return \/ Unwind

SpecNormalize == InitNormalize /\ [][NextNormalize]_vars

-----------------------------------------------------------------------------
(* split_range, parse_range and canonicalize, each called on its own: one     *)
(* action applies the function to `arg` and leaves what it ended with in      *)
(* `ret`.                                                                      *)

\* The strings of up to n characters of `alphabet`.
RECURSIVE Strings(_, _)
Strings(alphabet, n) ==
    IF n = 0 THEN {""}
    ELSE LET shorter == Strings(alphabet, n - 1)
         IN  shorter \cup { t \o c : t \in shorter, c \in alphabet }

MaxDescriptorLen == 4

Descriptors == Strings({"@", "a", "/"}, MaxDescriptorLen)

InitSplit ==
    /\ pc = "split_range"
    /\ arg \in Descriptors
    /\ ret = Pending
    /\ yaml = Null
    /\ iter = <<>>
    /\ deps = {}
    /\ result = Pending
    /\ stack = <<>>
    /\ single = Pending
    /\ zip_writer = <<>>

SplitRange ==
    /\ pc = "split_range"
    /\ ret' = split_range(arg)
    /\ pc' = "done"
    /\ UNCHANGED <<yaml, iter, deps, result, stack, single, arg, zip_writer>>

NextSplit == SplitRange

SpecSplit == InitSplit /\ [][NextSplit]_vars

MaxRangeLen == 4

Ranges == Strings({"n", ":", "#", " ", "\n"}, MaxRangeLen)

InitRange ==
    /\ pc = "parse_range"
    /\ arg \in Ranges
    /\ ret = Pending
    /\ yaml = Null
    /\ iter = <<>>
    /\ deps = {}
    /\ result = Pending
    /\ stack = <<>>
    /\ single = Pending
    /\ zip_writer = <<>>

\* Self::parse_range(value, range), as try_from calls it for the descriptor
\* pkg@<range>.
ParseRange ==
    /\ pc = "parse_range"
    /\ ret' = parse_range("pkg@" \o arg, arg)
    /\ pc' = "done"
    /\ UNCHANGED <<yaml, iter, deps, result, stack, single, arg, zip_writer>>

NextRange == ParseRange

SpecRange == InitRange /\ [][NextRange]_vars

MaxUrlParts == 4

\* Git urls: a prefix and up to MaxUrlParts of the pieces an url is cut at.
Urls ==
    { p \o rest : p \in {"git@github.com:", "git@gitlab.com:", "https://github.com/", ""},
                 rest \in Strings({"owner", "/", ".git", "x"}, MaxUrlParts) }

Heads == {None, Some("de5d975")}

Dependencies ==
    { Git(url, head) : url \in Urls, head \in Heads }
        \cup { GitHub("owner", "repo", head) : head \in Heads }
        \cup { Npm("lodash", "4.17.21"), Npm("git@github.com:owner/repo.git", "1"),
               CocoaPods("Alamofire", "5.6.4"),
               Maven("com.google.guava", "guava", "31.1-jre") }

InitCanon ==
    /\ pc = "canonicalize"
    /\ arg \in Dependencies
    /\ ret = Pending
    /\ yaml = Null
    /\ iter = <<>>
    /\ deps = {}
    /\ result = Pending
    /\ stack = <<>>
    /\ single = Pending
    /\ zip_writer = <<>>

Canonicalize ==
    /\ pc = "canonicalize"
    /\ ret' = canonicalize(arg)
    /\ pc' = "done"
    /\ UNCHANGED <<yaml, iter, deps, result, stack, single, arg, zip_writer>>

NextCanon == Canonicalize

SpecCanon == InitCanon /\ [][NextCanon]_vars

\* d.canonicalize().canonicalize(): canonicalize is called on `arg`, and then on
\* the value that call returned.  `ret` is what the first call ended with and
\* `single` what the second did; a panic in the first call ends the program,
\* and no second call is made.
InitTwice ==
    /\ pc = "canonicalize"
    /\ arg \in Dependencies
    /\ ret = Pending
    /\ yaml = Null
    /\ iter = <<>>
    /\ deps = {}
    /\ result = Pending
    /\ stack = <<>>
    /\ single = Pending
    /\ zip_writer = <<>>

CanonicalizeOnce ==
    /\ pc = "canonicalize"
    /\ ret' = canonicalize(arg)
    /\ pc' = IF canonicalize(arg) = Panic THEN "done" ELSE "canonicalize twice"
    /\ UNCHANGED <<yaml, iter, deps, result, stack, single, arg, zip_writer>>

CanonicalizeTwice ==
    /\ pc = "canonicalize twice"
    /\ single' = canonicalize(ret.val)
    /\ pc' = "done"
    /\ UNCHANGED <<yaml, iter, deps, result, stack, arg, ret, zip_writer>>

NextTwice == CanonicalizeOnce \/ CanonicalizeTwice

SpecTwice == InitTwice /\ [][NextTwice]_vars

-----------------------------------------------------------------------------
(* zip_util::from_tar (fossgraph-fetcher/src/zip_util.rs).  A tar archive is   *)
(* the sequence of what tar.entries() yields: Ok of an entry, or the Err of an *)
(* archive that cannot be read further.  An entry is the path and the mode of  *)
(* its header and its content, path and content being bytes.  A zip archive is *)
(* the sequence of its files; the content of a file is what reading the file   *)
(* gives, the Zstd coding being lossless.                                      *)

TarEntry(path, mode, data) == [path |-> path, mode |-> mode, data |-> data]

IoError == [kind |-> "IoError"]

\* Path::to_str: None unless the path is valid UTF-8.
to_str(path) == IF utf8_valid(path) THEN Some(from_utf8(path)) ELSE None

\* FileOptions::default().compression_method(Zstd).unix_permissions(mode):
\* unix_permissions keeps the nine permission bits of mode.
FileOptions(mode) == [compression_method |-> "Zstd", permissions |-> mode % 512]

\* ZipWriter::start_file: a new file, empty so far, follows the files written;
\* its mode is that of a regular file with the permissions of the options.
start_file(writer, name, options) ==
    Append(writer, [name |-> name,
                    unix_mode |-> 32768 + options.permissions,
                    compression_method |-> options.compression_method,
                    data |-> <<>>])

\* Vec::new().
Vec == <<>>

\* Read::read(&mut buf) on an entry: buf as slice has buf.len() bytes, and as
\* many bytes of the content as fit in it are copied to its front.  What buf
\* holds after the call.
read(data, buf) ==
    LET n == Min({Len(buf), Len(data)})
    IN  SubSeq(data, 1, n) \o SubSeq(buf, n + 1, Len(buf))

\* ZipWriter::write(buf): the bytes of buf follow the content of the file that
\* was started last.
write(writer, buf) ==
    [writer EXCEPT ![Len(writer)].data = @ \o buf]

MaxTarEntries == 2

\* Paths a, a/b and one byte that is no UTF-8.
Paths == {<<97>>, <<97, 47, 98>>, <<255>>}

\* Modes 0644 and 0755.
Modes == {420, 493}

Contents == {<<>>, <<104>>, <<104, 105>>}

EntryResults ==
    { Ok(TarEntry(path, mode, data)) : path \in Paths, mode \in Modes, data \in Contents }
        \cup {Err(IoError)}

\* The archives of up to MaxTarEntries entries, no path twice.
Archives ==
    { a \in UNION { [1..n -> EntryResults] : n \in 0..MaxTarEntries } :
        \A i, j \in DOMAIN a :
            (i < j /\ a[i].tag = "Ok" /\ a[j].tag = "Ok") => a[i].val.path # a[j].val.path }

InitTar ==
    /\ pc = "from_tar"
    /\ arg \in Archives
    /\ ret = Pending
    /\ yaml = Null
    /\ iter = <<>>
    /\ deps = {}
    /\ result = Pending
    /\ stack = <<>>
    /\ single = Pending
    /\ zip_writer = <<>>

\* ZipWriter::new, and tar.entries().
Entries ==
    /\ pc = "from_tar"
    /\ iter' = arg
    /\ zip_writer' = <<>>
    /\ pc' = "entries"
    /\ UNCHANGED <<yaml, deps, result, stack, single, arg, ret>>

\* entry_result?: the archive cannot be read further.
EntryErr ==
    /\ pc = "entries"
    /\ iter # <<>>
    /\ Head(iter).tag = "Err"
    /\ ret' = Err(Head(iter).err)
    /\ pc' = "done"
    /\ UNCHANGED <<yaml, iter, deps, result, stack, single, arg, zip_writer>>

\* path.to_str().unwrap() on a path that is no UTF-8.
PathPanic ==
    /\ pc = "entries"
    /\ iter # <<>>
    /\ Head(iter).tag = "Ok"
    /\ to_str(Head(iter).val.path) = None
    /\ ret' = Panic
    /\ pc' = "done"
    /\ UNCHANGED <<yaml, iter, deps, result, stack, single, arg, zip_writer>>

\* One turn of the loop: start_file, entry.read into a new Vec, and write of
\* that Vec.
Transcode ==
    /\ pc = "entries"
    /\ iter # <<>>
    /\ Head(iter).tag = "Ok"
    /\ to_str(Head(iter).val.path) # None
    /\ LET entry == Head(iter).val
           path == to_str(entry.path)[1]
           options == FileOptions(entry.mode)
           buf == read(entry.data, Vec)
       IN  zip_writer' = write(start_file(zip_writer, path, options), buf)
    /\ iter' = Tail(iter)
    /\ UNCHANGED <<pc, yaml, deps, result, stack, single, arg, ret>>

\* zip_writer.finish(), ZipArchive::new and Ok(archive).
Finish ==
    /\ pc = "entries"
    /\ iter = <<>>
    /\ ret' = Ok(zip_writer)
    /\ pc' = "done"
    /\ UNCHANGED <<yaml, iter, deps, result, stack, single, arg, zip_writer>>

NextTar == Entries \/ EntryErr \/ PathPanic \/ Transcode \/ Finish

SpecTar == InitTar /\ [][NextTar]_vars

-----------------------------------------------------------------------------
(* Properties of normalize_yaml (under Spec) *)

IsFormatError(r) == r.tag = "Err" /\ r.err.kind = "InvalidLockfileFormat"

\* The positions of the entries after the first one.
LaterEntries == 2..Len(yaml.entries)

\* What normalize_single_resolution returns for the entry at position i, which
\* has a string `resolution`.
NormalizedEntry(i) ==
    normalize_single_resolution(resolution_of(yaml.entries[i].val)[1])

\* C1: when normalize_yaml succeeds on a mapping, the returned set is exactly
\* the set of normalize_single_resolution's values over the entries after the
\* first one on which it succeeds: the first entry never contributes, equal
\* values are one element, and no value is canonicalized.
C1_CollectedSet ==
    (pc = "done" /\ result.tag = "Ok") =>
        /\ yaml.tag = "Mapping"
        /\ Len(yaml.entries) >= 1
        /\ result.val =
               { NormalizedEntry(i).val :
                   i \in { j \in LaterEntries :
                             /\ resolution_of(yaml.entries[j].val) # None
                             /\ NormalizedEntry(j).tag = "Ok" } }

\* A successful run whose first entry is a package that is left out, and whose
\* set keeps the SSH and the HTTPS url of one repository side by side.
C1_Witness ==
    /\ pc = "done"
    /\ result.tag = "Ok"
    /\ resolution_of(yaml.entries[1].val) = Some("left-pad@npm:1.3.0")
    /\ result.val =
           { Git("git@github.com:daangn/cjk-slug.git", Some("de5d975")),
             Git("https://github.com/daangn/cjk-slug.git", Some("de5d975")) }

\* An entry after the first that the claim C2 calls bad: no string `resolution`,
\* or a resolution normalize_single_resolution fails on with an error other
\* than UnsupportedResolution.
BadEntry(i) ==
    \/ resolution_of(yaml.entries[i].val) = None
    \/ /\ NormalizedEntry(i).tag = "Err"
       /\ NormalizedEntry(i).err.kind # "UnsupportedResolution"

\* Whether the entry at position i has a resolution that fails with
\* UnsupportedResolution.
UnsupportedEntry(i) ==
    /\ resolution_of(yaml.entries[i].val) # None
    /\ is_unsupported(NormalizedEntry(i))

\* C2: on a mapping with a first entry, normalize_yaml fails with
\* InvalidLockfileFormat if and only if some entry after the first is bad,
\* wherever it sits; and when every entry after the first is unsupported, it
\* returns the empty set.
C2_AllOrNothing ==
    (pc = "done" /\ yaml.tag = "Mapping" /\ Len(yaml.entries) >= 1) =>
        /\ IsFormatError(result) <=> (\E i \in LaterEntries : BadEntry(i))
        /\ (\A i \in LaterEntries : UnsupportedEntry(i)) => result = Ok({})

\* C3: normalize_yaml ends with a set or with InvalidLockfileFormat on every
\* document, with InvalidLockfileFormat on a document that is no mapping, and
\* with the empty set on a document that holds the metadata entry only.
C3_SetOrFormatError ==
    pc = "done" =>
        /\ result.tag = "Ok" \/ IsFormatError(result)
        /\ yaml.tag # "Mapping" => IsFormatError(result)
        /\ (yaml.tag = "Mapping" /\ Len(yaml.entries) = 1) => result = Ok({})

-----------------------------------------------------------------------------
(* Properties of patch: resolutions (under SpecPatch) *)

\* A resolution that parses to a Regular descriptor with protocol patch: .
IsPatch(resolution) ==
    LET descriptor == try_from(resolution)
    IN  /\ descriptor.tag = "Ok"
        /\ descriptor.val.variant = "Regular"
        /\ descriptor.val.range.protocol = "patch:"

\* The error of the nested call: the text patch: has no separator.
PatchError == Err(invalid_descriptor("patch:"))

\* Whether the entry at position i has a patch: resolution.
PatchEntry(i) ==
    /\ resolution_of(yaml.entries[i].val) # None
    /\ IsPatch(resolution_of(yaml.entries[i].val)[1])

\* Whether the loop goes past the entry at position i: its resolution
\* normalizes to a dependency or is unsupported.
Passed(i) ==
    /\ resolution_of(yaml.entries[i].val) # None
    /\ NormalizedEntry(i).tag = "Ok" \/ is_unsupported(NormalizedEntry(i))

\* The position of the entry the loop took last.
Taken == Len(yaml.entries) - Len(iter)

\* C13: no patch: resolution yields a dependency.  The frame of a resolution
\* that parses to a Regular descriptor with protocol patch: calls itself once,
\* on the text patch: (the protocol, whatever selector, source and bindings
\* are); that call makes no further call and returns the format error for a
\* descriptor without separator, which is what normalize_single_resolution
\* returns.  normalize_yaml on a document with such an entry after the first
\* returns no set: it returns that error when the loop gets to the entry, and
\* has failed before when it does not.
C13_PatchNeverYields ==
    /\ (stack # <<>> /\ IsPatch(stack[1])) =>
           /\ Len(stack) <= 2
           /\ Len(stack) = 2 => stack[2] = "patch:"
           /\ (pc = "normalize_single_resolution" /\ Len(stack) = 1) =>
                  frame(stack[1]) = Call("patch:")
           /\ pc = "return" => single = PatchError /\ IsFormatError(single)
    /\ (pc = "match" /\ PatchEntry(Taken)) => single = PatchError
    /\ (pc = "done" /\ yaml.tag = "Mapping") =>
           \A i \in LaterEntries :
               PatchEntry(i) =>
                   /\ result.tag # "Ok"
                   /\ (\A j \in 2..(i - 1) : Passed(j)) => result = PatchError

\* A lockfile with a package and, after it, a patch of that package: the set
\* holds the package when the patch ends the run with the error.
C13_Witness ==
    /\ pc = "done"
    /\ yaml.tag = "Mapping"
    /\ Len(yaml.entries) = 3
    /\ resolution_of(yaml.entries[2].val) = Some("lodash@npm:4.17.21")
    /\ resolution_of(yaml.entries[3].val) =
           Some("lodash@patch:lodash@npm%3A4.17.21#./lodash.patch::version=4.17.21")
    /\ deps = {Npm("lodash", "4.17.21")}
    /\ result = PatchError

-----------------------------------------------------------------------------
(* Properties of normalize_single_resolution (under SpecNormalize) *)

\* C4: the slash form and the colon form of an SSH-style git range both
\* normalize to Git with the url git@<host>:<owner>/<repo>.git and the commit
\* as head.
C4_SlashAndColonForm ==
    pc = "match" =>
        \A i \in Idents, h \in Hosts, o \in Owners, r \in Repos, c \in Commits :
            arg \in {SlashForm(i, h, o, r, c), ColonForm(i, h, o, r, c)} =>
                single = Ok(Git("git@" \o h \o ":" \o o \o "/" \o r \o ".git", Some(c)))

\* C5: a resolution that parses to a Regular descriptor with protocol npm:
\* fails with UnsupportedResolution (carrying the resolution) when its bindings
\* have the key __archiveUrl and is Npm{ident, selector} otherwise; one whose
\* protocol is neither npm: nor patch: fails with UnsupportedResolution.
C5_ProtocolDispatch ==
    pc = "match" =>
        LET descriptor == try_from(arg)
            range == descriptor.val.range
        IN  (descriptor.tag = "Ok" /\ descriptor.val.variant = "Regular") =>
                /\ range.protocol = "npm:" =>
                       single =
                           IF range.bindings # None
                                  /\ "__archiveUrl" \in DOMAIN range.bindings[1]
                           THEN Err(UnsupportedResolution(arg))
                           ELSE Ok(Npm(descriptor.val.ident, range.selector))
                /\ range.protocol \notin {"npm:", "patch:"} =>
                       single = Err(UnsupportedResolution(arg))

\* A scoped npm package from a private registry, the key of its binding
\* percent-encoded: unsupported.
C5_Witness ==
    /\ pc = "match"
    /\ arg = "@scope/name@npm:1.2.3::%5F%5FarchiveUrl=u"
    /\ try_from(arg).val.range.bindings = Some([__archiveUrl |-> "u"])
    /\ single = Err(UnsupportedResolution(arg))

\* The range of a resolution that has its separator.
RangeOf(resolution) == split_range(resolution).val[2]

\* A resolution with a descriptor- or range-grammar failure, as C6 lists them:
\* no separator; a range that starts with git@ or https://github.com/ and has
\* no marker #commit=; any other range that does not match the range grammar.
GrammarFailure(resolution) ==
    \/ split_range(resolution).tag = "Err"
    \/ /\ split_range(resolution).tag = "Ok"
       /\ IF \/ starts_with(RangeOf(resolution), "git@")
             \/ starts_with(RangeOf(resolution), "https://github.com/")
          THEN match_indices(RangeOf(resolution), "#commit=") = {}
          ELSE parse_range(resolution, RangeOf(resolution)).tag = "Err"

\* C6: every grammar failure is reported as InvalidLockfileFormat.
C6_GrammarFailureIsFormatError ==
    (pc = "match" /\ GrammarFailure(arg)) => IsFormatError(single)

\* C7: the recursion through the patch: arm is at most one call deep (two
\* frames), whatever the resolution nests; the frame on top always either
\* returns or makes that one call; and a resolution that recursed ends with the
\* format error.
C7_BoundedRecursion ==
    /\ Len(stack) <= 2
    /\ pc = "normalize_single_resolution" =>
           /\ frame(stack[Len(stack)]).tag \in {"Ok", "Err", "Panic", "Call"}
           /\ frame(stack[Len(stack)]).tag = "Call" => Len(stack) = 1
    /\ (pc = "match" /\ frame(arg).tag = "Call") => IsFormatError(single)

\* A patch of a patch of a package: the second frame, on the text patch: ,
\* has returned the format error.
C7_Witness ==
    /\ arg = Nested(2)
    /\ pc = "return"
    /\ stack = <<Nested(2), "patch:">>
    /\ IsFormatError(single)

-----------------------------------------------------------------------------
(* Properties of split_range (under SpecSplit) *)

\* The positions of '@' in `arg` with exactly k positions of '@' before them.
AtSignAfter(k) ==
    { i \in match_indices(arg, "@") :
        Cardinality({ j \in match_indices(arg, "@") : j < i }) = k }

\* C8: split_range cuts at the second '@' of a descriptor that starts with
\* '@' and at the first '@' of any other; ident, '@' and range make up the
\* descriptor again; the ident holds no '@' but a leading one; and it fails
\* with the descriptor error exactly when that '@' does not exist.
C8_SplitAtOneAtSign ==
    pc = "done" =>
        LET scoped == Len(arg) >= 1 /\ Char(arg, 1) = "@"
            cuts == AtSignAfter(IF scoped THEN 1 ELSE 0)
        IN  IF cuts = {} THEN ret = Err(invalid_descriptor(arg))
            ELSE LET cut == CHOOSE i \in cuts : TRUE
                 IN  /\ ret = Ok(<<SubSeq(arg, 1, cut - 1), SubSeq(arg, cut + 1, Len(arg))>>)
                     /\ ret.val[1] \o "@" \o ret.val[2] = arg
                     /\ match_indices(ret.val[1], "@") = IF scoped THEN {1} ELSE {}

\* A scoped descriptor with a third '@' in its range.
C8_Witness ==
    /\ pc = "done"
    /\ arg = "@a@@"
    /\ ret = Ok(<<"@a", "@">>)

-----------------------------------------------------------------------------
(* Properties of parse_range (under SpecRange) *)

\* Whether `protocol` is at least `least` characters none of which is '#', ':'
\* or whitespace, and then one ':'.
ProtocolShape(protocol, least) ==
    /\ Len(protocol) >= least + 1
    /\ Char(protocol, Len(protocol)) = ":"
    /\ \A i \in 1..(Len(protocol) - 1) :
           Char(protocol, i) \notin {"#", ":"} \cup Whitespace

\* C9, as claimed: the protocol of an accepted range is one or more characters
\* and the colon, and a range that begins with ':' is rejected.
C9_ProtocolNotEmpty ==
    pc = "done" =>
        /\ ret.tag = "Ok" => ProtocolShape(ret.val.protocol, 1)
        /\ starts_with(arg, ":") => ret = Err(invalid_descriptor("pkg@" \o arg))

\* C9, amended: the protocol of an accepted range is zero or more characters
\* none of which is '#', ':' or whitespace, and then one ':'; a range that
\* begins with ':' is accepted, with the protocol ":", whenever the same range
\* with a protocol character before the ':' is.
C9_ProtocolMayBeEmpty ==
    pc = "done" =>
        /\ ret.tag = "Ok" =>
               /\ ProtocolShape(ret.val.protocol, 0)
               /\ starts_with(arg, ret.val.protocol)
        /\ starts_with(arg, ":") =>
               /\ ret.tag = parse_range("pkg@n" \o arg, "n" \o arg).tag
               /\ ret.tag = "Ok" => ret.val.protocol = ":"

\* A range with an empty protocol part, accepted.
C9_Witness ==
    /\ pc = "done"
    /\ arg = ":n#n"
    /\ ret = Ok(PackageRange(":", "n", Some("n"), None))

-----------------------------------------------------------------------------
(* Properties of canonicalize (under SpecCanon) *)

\* The url git@github.com:<owner>/<name>.git as C10 reads it: the owner up to
\* the first '/', the name between that '/' and the final .git.
HasGitHubForm(url) ==
    /\ starts_with(url, "git@github.com:")
    /\ split_once(strip_prefix(url, "git@github.com:")[1], "/") # None
    /\ At(url, Len(url) - 3, ".git")
    /\ Len(split_once(strip_prefix(url, "git@github.com:")[1], "/")[1][2]) >= 4

GitHubOwner(url) == split_once(strip_prefix(url, "git@github.com:")[1], "/")[1][1]

GitHubName(url) ==
    LET rest == split_once(strip_prefix(url, "git@github.com:")[1], "/")[1][2]
    IN  SubSeq(rest, 1, Len(rest) - 4)

\* C10: canonicalize returns on every Dependency: GitHub{owner, name, head} for
\* a Git value whose url has the form git@github.com:<owner>/<name>.git, and
\* the value itself for every other one.
C10_Canonicalize ==
    pc = "done" =>
        ret = IF arg.type = "Git" /\ HasGitHubForm(arg.url)
              THEN Ok(GitHub(GitHubOwner(arg.url), GitHubName(arg.url), arg.head))
              ELSE Ok(arg)

\* Whether canonicalize, called on d and then on what that call returned, has
\* returned the same value both times.
ReturnedTwice == ret.tag = "Ok" /\ single = ret

\* C11: canonicalize is idempotent on every Dependency d: canonicalize called on
\* canonicalize(d) returns a value, and it is the value canonicalize(d) is.
C11_Idempotent == pc = "done" => ReturnedTwice

\* Where the first call returns, the second returns the same value: the law
\* fails on no other d than those canonicalize panics on.
IdempotentWhereDefined == (pc = "done" /\ ret # Panic) => ReturnedTwice

\* A git@github.com: url that the first call turns into a GitHub value, which
\* the second call returns as it is.
Rewritten ==
    /\ pc = "done"
    /\ arg = Git("git@github.com:owner/x.git", Some("de5d975"))
    /\ ret = Ok(GitHub("owner", "x", Some("de5d975")))
    /\ single = ret

-----------------------------------------------------------------------------
(* Properties of from_tar (under SpecTar) *)

\* Every entry of the archive can be read.
Readable == \A i \in DOMAIN arg : arg[i].tag = "Ok"

SamePath(file, entry) == to_str(entry.path) = Some(file.name)

SamePermissions(file, entry) == file.unix_mode % 512 = entry.mode % 512

SameContent(file, entry) == file.data = entry.data

\* C12: from_tar of an archive gives a zip archive with one file for each
\* entry, in the order of the entries, each file with the path, the permission
\* bits and the content of its entry.
C12_Lossless ==
    (pc = "done" /\ Readable) =>
        /\ ret.tag = "Ok"
        /\ Len(ret.val) = Len(arg)
        /\ \A i \in DOMAIN arg :
               /\ SamePath(ret.val[i], arg[i].val)
               /\ SamePermissions(ret.val[i], arg[i].val)
               /\ SameContent(ret.val[i], arg[i].val)

\* What from_tar does keep, of an archive whose paths are UTF-8: the number and
\* the order of the entries, their paths and permission bits; and every file
\* of the zip archive is empty.
AllButContent ==
    (pc = "done" /\ Readable /\ \A i \in DOMAIN arg : to_str(arg[i].val.path) # None) =>
        /\ ret.tag = "Ok"
        /\ Len(ret.val) = Len(arg)
        /\ \A i \in DOMAIN arg :
               /\ SamePath(ret.val[i], arg[i].val)
               /\ SamePermissions(ret.val[i], arg[i].val)
               /\ ret.val[i].data = <<>>

\* An entry with content that has become an empty file.
EmptiedFile ==
    /\ pc = "done"
    /\ arg = <<Ok(TarEntry(<<97>>, 420, <<104, 105>>))>>
    /\ ret = Ok(<<[name |-> "a", unix_mode |-> 33188,
                   compression_method |-> "Zstd", data |-> <<>>]>>)

====
